---- MODULE Spec2Model ----
(***************************************************************************)
(* Inkbird ITH-11-B integration: the advertisement parser (parser.py) and  *)
(* the sensor platform that stores and fans out its readings (sensor.py).  *)
(*                                                                         *)
(* Representation.  Bytes objects are sequences of 0..255; Python offset i *)
(* is element i+1.  Temperature and humidity are decimal numbers, held in  *)
(* hundredths of a unit (16.1 is 1610, 23.45 is 2345); battery is the      *)
(* integer itself.  A dict is a function on its set of keys.  An outcome   *)
(* is a record [exc, val]: exc says that the evaluation raised.            *)
(***************************************************************************)
EXTENDS Integers, Sequences, FiniteSets, TLC

VARIABLES
    arg,        \* the service_info object of the current parse call
    ret,        \* what that call returned, once it has
    result,     \* the dict bound to parse's local name `result`
    earlier,    \* an earlier call, kept for comparison (history)
    ncalls,     \* parse calls made so far (history)
    setup,      \* setup[e]: async_setup_entry has run for config entry e
    state,      \* state[e]: hass.data[DOMAIN][e]["state"]
    entity,     \* entity[e][t]: the InkbirdSensor of entry e and type t
    now,        \* the clock datetime.utcnow() reads
    nsignals,   \* nsignals[e]: update signals dispatched for e (history)
    ncallbacks, \* advertisement callbacks run so far (history)
    lastCb,     \* the latest advertisement callback (history)
    event,      \* the advertisement the bluetooth stack is delivering
    pending,    \* the registrations it has still to call for that event
    nevents     \* advertisement events so far (history)

parseVars == <<arg, ret, result, earlier, ncalls>>

hassVars == <<setup, state, entity, now, nsignals, ncallbacks, lastCb,
              event, pending, nevents>>

vars == <<arg, ret, result, earlier, ncalls,
          setup, state, entity, now, nsignals, ncallbacks, lastCb,
          event, pending, nevents>>

(***************************************************************************)
(* Bounds of the model.                                                    *)
(***************************************************************************)
\* longest run of bytes past offset 8 in an enumerated payload
MaxTail == 7
\* number of parse calls in one behaviour
MaxCalls == 3
\* number of advertisement callbacks in one behaviour
MaxCallbacks == 4
\* number of advertisement events in one behaviour
MaxEvents == 2
\* the clock's last tick
MaxClock == 1

(***************************************************************************)
(* Program constants.                                                      *)
(***************************************************************************)
\* the company id parse looks up in manufacturer_data
INKBIRD_COMPANY_ID == 9545
\* the highest offset parse reads: the payload must be longer than this
LastOffset == 8

(***************************************************************************)
(* Python values.                                                          *)
(***************************************************************************)
Value(k, d, i) == [kind |-> k, data |-> d, n |-> i]
NoneV == Value("none", <<>>, 0)
BytesV(s) == Value("bytes", s, 0)
ByteArrayV(s) == Value("bytearray", s, 0)
MemoryViewV(s) == Value("memoryview", s, 0)
ListV(s) == Value("list", s, 0)
IntV(i) == Value("int", <<>>, i)
StrV == Value("str", <<>>, 0)

Ok(v) == [exc |-> FALSE, val |-> v]
Raise == [exc |-> TRUE, val |-> <<>>]

EmptyDict == [k \in {} |-> 0]
NoReading == EmptyDict
ReadingKeys == {"temperature", "humidity", "battery"}

\* d[k] = v on a dict
Put(d, k, v) == [x \in (DOMAIN d) \cup {k} |-> IF x = k THEN v ELSE d[x]]

\* payload[i], Python's 0-based offset
At(payload, i) == payload[i + 1]

\* x << 8 on a Python int (unbounded)
Shl8(x) == x * 256

\* round(raw / 10.0, 1): the decimal raw/10, in hundredths
RoundTenth(raw) == raw * 10

(***************************************************************************)
(* _as_bytes                                                               *)
(***************************************************************************)
\* bytes(value) for a value that is neither None, bytes nor bytearray
BytesCtor(value) ==
    CASE value.kind = "memoryview" -> Ok(value.data)
      [] value.kind = "int" ->
            IF value.n >= 0 THEN Ok([i \in 1..value.n |-> 0]) ELSE Raise
      [] value.kind = "list" ->
            IF \A i \in 1..Len(value.data) : value.data[i] \in 0..255
            THEN Ok(value.data) ELSE Raise
      [] OTHER -> Raise

AsBytes(value) ==
    IF value.kind = "none" THEN <<>>
    ELSE IF value.kind = "bytes" THEN value.data
    ELSE IF value.kind = "bytearray" THEN value.data
    ELSE LET r == BytesCtor(value) IN IF r.exc THEN <<>> ELSE r.val

(***************************************************************************)
(* parse                                                                   *)
(***************************************************************************)
Reading(temp, hum, batt) ==
    Put(Put(Put(EmptyDict, "temperature", temp), "humidity", hum), "battery", batt)

\* seeded fault: the two bytes of each 16-bit field taken in the other order
DecodeSwapped(payload) ==
    Ok(Reading(RoundTenth(Shl8(At(payload, 4)) + At(payload, 5)),
               RoundTenth(Shl8(At(payload, 6)) + At(payload, 7)),
               At(payload, LastOffset)))

\* seeded fault: a field is stored only when it is plausible (battery 0..100)
DecodePlausible(payload) ==
    LET temp == RoundTenth(Shl8(At(payload, 5)) + At(payload, 4))
        hum == RoundTenth(Shl8(At(payload, 7)) + At(payload, 6))
        batt == At(payload, LastOffset)
        r == Put(Put(EmptyDict, "temperature", temp), "humidity", hum)
    IN  Ok(IF batt <= 100 THEN Put(r, "battery", batt) ELSE r)

\* seeded fault: battery read one offset too low
DecodeBatteryOffByOne(payload) ==
    Ok(Reading(RoundTenth(Shl8(At(payload, 5)) + At(payload, 4)),
               RoundTenth(Shl8(At(payload, 7)) + At(payload, 6)),
               At(payload, LastOffset - 1)))

\* seeded fault: battery read from the last byte of the payload (payload[-1])
DecodeBatteryFromEnd(payload) ==
    Ok(Reading(RoundTenth(Shl8(At(payload, 5)) + At(payload, 4)),
               RoundTenth(Shl8(At(payload, 7)) + At(payload, 6)),
               payload[Len(payload)]))

\* the body of the inner try: an offset past the end raises IndexError
Decode(payload) ==
    IF \E i \in {7, 6, 5, 4, LastOffset} : i >= Len(payload) THEN Raise
    ELSE LET raw_hum == Shl8(At(payload, 7)) + At(payload, 6)
             raw_temp == Shl8(At(payload, 5)) + At(payload, 4)
             batt == At(payload, LastOffset)
             hum == RoundTenth(raw_hum)
             temp == RoundTenth(raw_temp)
         IN  Ok(Reading(temp, hum, batt))

\* getattr(service_info, name, None): a missing attribute gives None, any
\* other fault of the attribute's getter propagates
NoneAttr == [kind |-> "none", map |-> EmptyDict]
GetAttr(attr) ==
    CASE attr.kind = "raises" -> Raise
      [] attr.kind = "missing" -> Ok(NoneAttr)
      [] OTHER -> Ok(attr)

\* seeded fault: the payload of any company id is decoded, the lowest id first
ParseBodyAnyId(service_info) ==
    LET g == GetAttr(service_info.manufacturer_data)
    IN  IF g.exc THEN Raise
        ELSE IF g.val.kind = "dict" /\ DOMAIN g.val.map # {}
        THEN LET id == CHOOSE k \in DOMAIN g.val.map :
                           \A j \in DOMAIN g.val.map : k <= j
                 payload == AsBytes(g.val.map[id])
             IN  IF payload # <<>> /\ Len(payload) > LastOffset
                 THEN Decode(payload) ELSE Ok(EmptyDict)
        ELSE Ok(EmptyDict)

\* seeded fault: no length check, the fields are read with slices, which never
\* raise: int.from_bytes(payload[4:6], "little") and so on
SliceLE(payload, i) ==
    (IF i < Len(payload) THEN At(payload, i) ELSE 0)
    + Shl8(IF i + 1 < Len(payload) THEN At(payload, i + 1) ELSE 0)
ParseBodyNoLengthCheck(service_info) ==
    LET g == GetAttr(service_info.manufacturer_data)
    IN  IF g.exc THEN Raise
        ELSE IF g.val.kind = "dict" /\ INKBIRD_COMPANY_ID \in DOMAIN g.val.map
        THEN LET payload == AsBytes(g.val.map[INKBIRD_COMPANY_ID])
             IN  IF payload # <<>>
                 THEN Ok(Reading(RoundTenth(SliceLE(payload, 4)),
                                 RoundTenth(SliceLE(payload, 6)),
                                 SliceLE(payload, LastOffset) % 256))
                 ELSE Ok(EmptyDict)
        ELSE Ok(EmptyDict)

\* seeded fault: payloads under other ids and service data are scanned for
\* plausible values when the fixed-offset decoding does not apply
ScanPayload(p) ==
    LET le == At(p, 0) + Shl8(At(p, 1))
        be == Shl8(At(p, 0)) + At(p, 1)
        t == IF le <= 8500 THEN Put(EmptyDict, "temperature", le)
             ELSE Put(EmptyDict, "temperature", be * 10)
        h == IF Len(p) > 3 THEN Put(t, "humidity", At(p, 2) * 100) ELSE t
    IN  Put(h, "battery", p[Len(p)])
ParseBodyScan(service_info) ==
    LET g == GetAttr(service_info.manufacturer_data)
        s == GetAttr(service_info.service_data)
    IN  IF g.exc \/ s.exc THEN Raise
        ELSE IF g.val.kind = "dict" /\ INKBIRD_COMPANY_ID \in DOMAIN g.val.map
        THEN LET payload == AsBytes(g.val.map[INKBIRD_COMPANY_ID])
             IN  IF payload # <<>> /\ Len(payload) > LastOffset
                 THEN Decode(payload) ELSE Ok(EmptyDict)
        ELSE LET cand == {AsBytes(g.val.map[k]) : k \in DOMAIN g.val.map}
                         \cup {AsBytes(s.val.map[k]) : k \in DOMAIN s.val.map}
                 good == {p \in cand : Len(p) > 2}
             IN  IF good = {} THEN Ok(EmptyDict)
                 ELSE Ok(ScanPayload(CHOOSE p \in good : TRUE))

\* the body of the outer try
ParseBody(service_info) ==
    LET g == GetAttr(service_info.manufacturer_data)
    IN  IF g.exc THEN Raise
        ELSE LET mfg == g.val
             IN  IF mfg.kind = "dict" /\ INKBIRD_COMPANY_ID \in DOMAIN mfg.map
                 THEN LET payload == AsBytes(mfg.map[INKBIRD_COMPANY_ID])
                      IN  IF payload # <<>> /\ Len(payload) > LastOffset
                          THEN LET d == Decode(payload)
                               IN  IF d.exc THEN Ok(EmptyDict) ELSE d
                          ELSE Ok(EmptyDict)
                 ELSE Ok(EmptyDict)

\* seeded fault: no outer try/except around the body
ParseNoOuterTry(service_info) == ParseBody(service_info)

\* parse(service_info): the outer except turns any fault into {}
Parse(service_info) ==
    LET r == ParseBody(service_info)
    IN  IF r.exc THEN Ok(EmptyDict) ELSE r

(***************************************************************************)
(* The advertisements the model enumerates.                                *)
(***************************************************************************)
\* run_parser_tests.py, tests 4 and 5
SamplePayload4 == <<2, 40, 7, 92, 161, 0, 231, 3, 70, 0, 68, 8, 0, 0, 0, 0>>
SamplePayload5 == <<2, 40, 7, 92, 159, 0, 231, 3, 86, 0, 68, 8, 0, 0, 0, 0>>
\* test_parser.py: (2345).to_bytes(2, "little") + bytes([56, 95])
TestPayloadLE == <<41, 9, 56, 95>>
\* test_parser.py: (230).to_bytes(2, "big") + bytes([80])
TestPayloadBE == <<0, 230, 80>>

Heads == {<<2, 40, 7, 92>>, <<255, 0, 1, 16>>}

\* bytes 4..8: temperature low, high; humidity low, high; battery
FieldBytes ==
    { <<161, 0, 231, 3, 70>>, <<159, 0, 231, 3, 86>>,
      <<0, 0, 0, 0, 0>>, <<255, 255, 255, 255, 255>>,
      <<255, 0, 0, 255, 100>>, <<0, 128, 232, 3, 101>>,
      <<1, 2, 3, 4, 128>>, <<161, 0, 231, 3, 3>> }

TailBytes(n) ==
    [i \in 1..n |-> IF LastOffset + 1 + i <= Len(SamplePayload4)
                    THEN SamplePayload4[LastOffset + 1 + i] ELSE i % 256]

LongPayloads ==
    {h \o f \o TailBytes(n) : h \in Heads, f \in FieldBytes, n \in {0, MaxTail}}
    \cup {SamplePayload4, SamplePayload5}

\* every length the decoder refuses, the empty payload included
ShortPayloads == {SubSeq(SamplePayload4, 1, n) : n \in 0..LastOffset}

Payloads == LongPayloads \cup ShortPayloads

\* what a manufacturer_data dict may hold under the Inkbird id
InkbirdValues ==
    {BytesV(p) : p \in Payloads}
    \cup { ByteArrayV(SamplePayload5), MemoryViewV(SamplePayload4),
           NoneV, StrV, IntV(12), IntV(3), IntV(0 - 1),
           ListV(<<1, 1, 1, 1, 1, 1, 1, 1, 1>>),
           ListV(<<1, 1, 1, 1, 300, 1, 1, 1, 1>>) }

\* a smaller choice, combined with foreign entries and service data
CoreValues ==
    { BytesV(SamplePayload4), BytesV(<<255, 0, 1, 16>> \o <<161, 0, 231, 3, 70>>),
      BytesV(SubSeq(SamplePayload4, 1, LastOffset)), BytesV(<<>>),
      BytesV(<<0, 0, 0, 0, 255, 255, 255, 255, 255>>), NoneV }

MkDict(pairs) ==
    [k \in {e[1] : e \in pairs} |-> (CHOOSE e \in pairs : e[1] = k)[2]]

DictAttr(pairs) == [kind |-> "dict", map |-> MkDict(pairs)]
OtherAttr(k) == [kind |-> k, map |-> EmptyDict]

ServiceInfo(addr, mfg, sdata) ==
    [address |-> addr, manufacturer_data |-> mfg, service_data |-> sdata,
     service_uuids |-> {}]

\* the same advertisement, listing service UUIDs
WithUuids(si, uuids) == [si EXCEPT !.service_uuids = uuids]

NoServiceData == DictAttr({})
TestServiceData == DictAttr({<<"abc", BytesV(TestPayloadBE)>>})

\* entries under another company id, with the service data they come with
Contexts ==
    { <<{<<1, BytesV(TestPayloadLE)>>}, NoServiceData>>,
      <<{<<1, BytesV(SamplePayload4)>>}, TestServiceData>>,
      <<{<<1, BytesV(<<>>)>>}, NoServiceData>>,
      <<{}, TestServiceData>> }

DefaultAddress == "aa:bb:cc:dd:ee:ff"

ParseInputs ==
    {ServiceInfo(DefaultAddress, DictAttr({<<INKBIRD_COMPANY_ID, v>>}), NoServiceData) :
        v \in InkbirdValues}
    \cup {ServiceInfo(DefaultAddress, DictAttr(c[1] \cup {<<INKBIRD_COMPANY_ID, v>>}), c[2]) :
        c \in Contexts, v \in CoreValues}
    \cup {ServiceInfo(DefaultAddress, DictAttr(c[1]), c[2]) : c \in Contexts}
    \cup {ServiceInfo(DefaultAddress, DictAttr({}), NoServiceData)}
    \cup {ServiceInfo(DefaultAddress, OtherAttr(k), sd) :
        k \in {"none", "missing", "raises", "list"},
        sd \in {NoServiceData, OtherAttr("missing")}}

\* the return of a parse call, and a remembered call
Pending == [done |-> FALSE, exc |-> FALSE, val |-> EmptyDict]
Returned(o) == [done |-> TRUE, exc |-> o.exc, val |-> o.val]
NoCall == [made |-> FALSE, n |-> 0, arg |-> ServiceInfo(DefaultAddress, DictAttr({}), NoServiceData),
           ret |-> Pending]

(***************************************************************************)
(* The sensor platform: config entries, stored state, sensor entities.     *)
(***************************************************************************)
Entries == {"entry1", "entry2"}

\* const.py is not among the sources: the three sensor types are the keys
\* parse returns, which is what _handle_update looks up in the signal's data
SensorTypes == ReadingKeys

\* self._state = None: no value yet (every decoded value is >= 0)
NoneState == 0 - 1

Mac1 == "aa:bb:cc:dd:ee:01"
Mac2 == "aa:bb:cc:dd:ee:02"
OtherAddress == "11:22:33:44:55:66"
\* the object has no attribute `address`
NoAddressAttr == "<no attribute>"

ConfiguredMac(e) == IF e = "entry1" THEN Mac1 ELSE Mac2

\* the service UUID of the third matcher
ServiceUuidFFF0 == "0000fff0-0000-1000-8000-00805f9b34fb"

\* the four matchers async_setup_entry registers the callback with, each
\* registration of its own
Matchers == {"address", "manufacturer_id", "service_uuid", "global"}

\* BluetoothCallbackMatcher: does the matcher of entry e accept si
Matches(m, e, si) ==
    CASE m = "address" -> si.address = ConfiguredMac(e)
      [] m = "manufacturer_id" ->
            /\ si.manufacturer_data.kind = "dict"
            /\ INKBIRD_COMPANY_ID \in DOMAIN si.manufacturer_data.map
      [] m = "service_uuid" -> ServiceUuidFFF0 \in si.service_uuids
      [] OTHER -> TRUE

\* the advertisements the bluetooth stack hands to the callback
Adverts ==
    { WithUuids(ServiceInfo(Mac1,
                            DictAttr({<<INKBIRD_COMPANY_ID, BytesV(SamplePayload4)>>}),
                            NoServiceData),
                {ServiceUuidFFF0}),
      ServiceInfo(OtherAddress,
                  DictAttr({<<INKBIRD_COMPANY_ID, ByteArrayV(SamplePayload5)>>,
                            <<1, BytesV(TestPayloadLE)>>}),
                  TestServiceData),
      ServiceInfo(Mac2,
                  DictAttr({<<INKBIRD_COMPANY_ID,
                              BytesV(<<0, 0, 0, 0, 255, 255, 255, 255, 255>>)>>}),
                  OtherAttr("missing")),
      ServiceInfo(Mac1,
                  DictAttr({<<INKBIRD_COMPANY_ID,
                              BytesV(SubSeq(SamplePayload4, 1, LastOffset))>>}),
                  NoServiceData),
      ServiceInfo(Mac1, DictAttr({<<1, BytesV(SamplePayload4)>>}), TestServiceData),
      ServiceInfo(Mac2, OtherAttr("raises"), NoServiceData),
      ServiceInfo(NoAddressAttr,
                  DictAttr({<<INKBIRD_COMPANY_ID, BytesV(SamplePayload4)>>}),
                  NoServiceData) }

\* bytes.hex(): two hexadecimal digits per byte, as a sequence of 0..15
Hex(b) ==
    [i \in 1..(2 * Len(b)) |->
        IF i % 2 = 1 THEN b[(i + 1) \div 2] \div 16 ELSE b[i \div 2] % 16]

\* lines 76-82: bytes(v).hex(), else v.hex(), else str(v)
RawRepr(v) ==
    IF v.kind \in {"bytes", "bytearray"} THEN [form |-> "hex", digits |-> Hex(v.data)]
    ELSE LET r == BytesCtor(v)
         IN  IF ~r.exc THEN [form |-> "hex", digits |-> Hex(r.val)]
             ELSE [form |-> "str", digits |-> <<>>]

\* lines 74-82: {str(k): hex of v} when manufacturer_data is a dict; the
\* keys are company ids
RawManufacturer(attr) ==
    IF attr.kind = "dict"
    THEN LET keys == {ToString(k) : k \in DOMAIN attr.map}
         IN  [s \in keys |->
                RawRepr(attr.map[CHOOSE k \in DOMAIN attr.map : ToString(k) = s])]
    ELSE EmptyDict

\* lines 83-91: the same for service_data, whose keys are strings already
RawServiceData(attr) ==
    IF attr.kind = "dict"
    THEN [s \in DOMAIN attr.map |-> RawRepr(attr.map[s])]
    ELSE EmptyDict

\* dict.update(other)
Update(d, other) ==
    [k \in (DOMAIN d) \cup (DOMAIN other) |->
        IF k \in DOMAIN other THEN other[k] ELSE d[k]]

NewEntity == [added |-> FALSE, value |-> NoneState]

Recorded(o, e, si, data) ==
    [outcome |-> o, entry |-> e, address |-> si.address, data |-> data]

\* no advertisement has been delivered yet
NoEvent == [si |-> NoCall.arg, regs |-> {}, signals |-> [e \in Entries |-> 0]]

NoCallback == [outcome |-> "none", entry |-> "entry1", address |-> "", data |-> EmptyDict]

InitHass ==
    /\ setup = [e \in Entries |-> FALSE]
    /\ state = [e \in Entries |-> EmptyDict]
    /\ entity = [e \in Entries |-> [t \in SensorTypes |-> NewEntity]]
    /\ now = 0
    /\ nsignals = [e \in Entries |-> 0]
    /\ ncallbacks = 0
    /\ lastCb = NoCallback
    /\ event = NoEvent
    /\ pending = {}
    /\ nevents = 0

\* __init__.async_setup_entry and sensor.async_setup_entry: the state starts
\* empty, the three entities are created and the callback is registered
SetupEntry(e) ==
    /\ pending = {}
    /\ ~setup[e]
    /\ setup' = [setup EXCEPT ![e] = TRUE]
    /\ state' = [state EXCEPT ![e] = EmptyDict]
    /\ entity' = [entity EXCEPT ![e] = [t \in SensorTypes |-> NewEntity]]
    /\ UNCHANGED <<now, nsignals, ncallbacks, lastCb, event, pending, nevents>>
    /\ UNCHANGED parseVars

\* seeded fault: subscribe without taking the stored value
AddedToHassNoInit(e, t) ==
    /\ pending = {}
    /\ setup[e]
    /\ ~entity[e][t].added
    /\ entity' = [entity EXCEPT ![e][t] = [added |-> TRUE, value |-> @.value]]
    /\ UNCHANGED <<setup, state, now, nsignals, ncallbacks, lastCb,
                   event, pending, nevents>>
    /\ UNCHANGED parseVars

\* InkbirdSensor.async_added_to_hass: take the stored value, then subscribe
AddedToHass(e, t) ==
    /\ pending = {}
    /\ setup[e]
    /\ ~entity[e][t].added
    /\ entity' = [entity EXCEPT ![e][t] =
            [added |-> TRUE,
             value |-> IF t \in DOMAIN state[e] THEN state[e][t] ELSE @.value]]
    /\ UNCHANGED <<setup, state, now, nsignals, ncallbacks, lastCb,
                   event, pending, nevents>>
    /\ UNCHANGED parseVars

\* InkbirdSensor._handle_update, for every subscribed entity of the entry
HandleUpdate(ents, data) ==
    [t \in SensorTypes |->
        IF ents[t].added /\ t \in DOMAIN data
        THEN [ents[t] EXCEPT !.value = data[t]]
        ELSE ents[t]]

\* lines 70-107: what the callback does once parse has returned `data`;
\* ts is what datetime.utcnow() returns
StoreAndDispatch(e, si, data, ts) ==
    LET g == GetAttr(si.manufacturer_data)
        h == GetAttr(si.service_data)
        mfg == IF g.exc \/ h.exc THEN NoneAttr ELSE g.val
        sdata == IF g.exc \/ h.exc THEN NoneAttr ELSE h.val
        raw_mfg == RawManufacturer(mfg)
        raw_svc == RawServiceData(sdata)
        new == Put(Put(Put(Update(state[e], data),
                           "raw_manufacturer", raw_mfg),
                       "raw_service_data", raw_svc),
                   "last_seen", ts)
        full_state == new
    IN  /\ state' = [state EXCEPT ![e] = new]
        /\ entity' = [entity EXCEPT ![e] = HandleUpdate(@, full_state)]
        /\ nsignals' = [nsignals EXCEPT ![e] = @ + 1]

\* seeded fault: no `if not data: return`
ServiceInfoCallbackNoSkip(e, si, ts) ==
    /\ setup[e]
    /\ ncallbacks < MaxCallbacks
    /\ ncallbacks' = ncallbacks + 1
    /\ now' = ts
    /\ IF si.address = NoAddressAttr \/ Parse(si).exc
       THEN /\ lastCb' = Recorded("fault", e, si, EmptyDict)
            /\ UNCHANGED <<state, entity, nsignals>>
       ELSE LET data == Parse(si).val
            IN  /\ lastCb' = Recorded(IF data = EmptyDict THEN "skipped" ELSE "updated",
                                      e, si, data)
                /\ StoreAndDispatch(e, si, data, ts)
    /\ UNCHANGED setup
    /\ UNCHANGED parseVars

\* seeded fault: return when the sender is not the configured address
ServiceInfoCallbackFiltered(e, si, ts) ==
    /\ setup[e]
    /\ ncallbacks < MaxCallbacks
    /\ ncallbacks' = ncallbacks + 1
    /\ now' = ts
    /\ IF si.address = NoAddressAttr \/ Parse(si).exc
       THEN /\ lastCb' = Recorded("fault", e, si, EmptyDict)
            /\ UNCHANGED <<state, entity, nsignals>>
       ELSE LET data == Parse(si).val
            IN  IF data = EmptyDict \/ si.address # ConfiguredMac(e)
                THEN /\ lastCb' = Recorded("skipped", e, si, data)
                     /\ UNCHANGED <<state, entity, nsignals>>
                ELSE /\ lastCb' = Recorded("updated", e, si, data)
                     /\ StoreAndDispatch(e, si, data, ts)
    /\ UNCHANGED setup
    /\ UNCHANGED parseVars

\* _service_info_callback of entry e, called with one advertisement while
\* the clock reads ts
ServiceInfoCallback(e, si, ts) ==
    /\ setup[e]
    /\ ncallbacks < MaxCallbacks
    /\ ncallbacks' = ncallbacks + 1
    /\ now' = ts
    /\ IF si.address = NoAddressAttr \/ Parse(si).exc
       THEN \* line 64 raises AttributeError; line 108 catches and logs it
            /\ lastCb' = Recorded("fault", e, si, EmptyDict)
            /\ UNCHANGED <<state, entity, nsignals>>
       ELSE LET data == Parse(si).val
            IN  IF data = EmptyDict
                THEN \* lines 67-68
                     /\ lastCb' = Recorded("skipped", e, si, data)
                     /\ UNCHANGED <<state, entity, nsignals>>
                ELSE /\ lastCb' = Recorded("updated", e, si, data)
                     /\ StoreAndDispatch(e, si, data, ts)
    /\ UNCHANGED setup
    /\ UNCHANGED parseVars

Init ==
    /\ arg = NoCall.arg
    /\ ret = Pending
    /\ result = EmptyDict
    /\ earlier = NoCall
    /\ ncalls = 0
    /\ InitHass

Setup == \E e \in Entries : SetupEntry(e)

EntityAdded == \E e \in Entries, t \in SensorTypes : AddedToHass(e, t)

\* the registrations of the set-up entries whose matcher accepts si
Registrations(si) ==
    {r \in Entries \X Matchers : setup[r[1]] /\ Matches(r[2], r[1], si)}

\* the bluetooth stack receives an advertisement: every registration whose
\* matcher accepts it is to be called
Advertise(si) ==
    /\ pending = {}
    /\ nevents < MaxEvents
    /\ nevents' = nevents + 1
    /\ event' = [si |-> si, regs |-> Registrations(si), signals |-> nsignals]
    /\ pending' = Registrations(si)
    /\ UNCHANGED <<setup, state, entity, now, nsignals, ncallbacks, lastCb>>
    /\ UNCHANGED parseVars

\* it calls them one after the other, in the order of the entries and of
\* the registrations, with nothing else running in between
NextRegistration ==
    LET e == CHOOSE x \in {r[1] : r \in pending} :
                 \A y \in {r[1] : r \in pending} : x = "entry1" \/ y # "entry1"
        m == CHOOSE x \in {r[2] : r \in {q \in pending : q[1] = e}} :
                 \A y \in {r[2] : r \in {q \in pending : q[1] = e}} :
                     \/ x = "address"
                     \/ (x = "manufacturer_id" /\ y # "address")
                     \/ (x = "service_uuid" /\ y \in {"service_uuid", "global"})
                     \/ (x = "global" /\ y = "global")
    IN  <<e, m>>

\* the clock never runs backwards
Deliver ==
    /\ pending # {}
    /\ \E ts \in now..MaxClock : ServiceInfoCallback(NextRegistration[1], event.si, ts)
    /\ pending' = pending \ {NextRegistration}
    /\ UNCHANGED <<event, nevents>>

Advertisement == \E si \in Adverts : Advertise(si)

Next == Setup \/ EntityAdded \/ Advertisement \/ Deliver

Spec == Init /\ [][Next]_vars

(***************************************************************************)
(* Calls of parse, one after another.                                      *)
(***************************************************************************)
InitParse ==
    /\ arg \in ParseInputs
    /\ ret = Pending
    /\ result = EmptyDict
    /\ earlier = NoCall
    /\ ncalls = 0
    /\ InitHass

\* seeded fault: `result` lives at module level and is what every path returns
ParseCallStale ==
    /\ ~ret.done
    /\ LET o == Parse(arg)
           r == IF o.val = NoReading THEN result ELSE o.val
       IN  /\ result' = r
           /\ ret' = Returned(Ok(r))
    /\ ncalls' = ncalls + 1
    /\ UNCHANGED <<arg, earlier>>
    /\ UNCHANGED hassVars

\* one call of parse: `result` starts as a new empty dict (line 106), a
\* reading is stored in it and returned, every other path returns a new {}
ParseCall ==
    /\ ~ret.done
    /\ LET o == Parse(arg)
       IN  /\ result' = IF o.exc \/ o.val = NoReading THEN EmptyDict ELSE o.val
           /\ ret' = Returned(o)
    /\ ncalls' = ncalls + 1
    /\ UNCHANGED <<arg, earlier>>
    /\ UNCHANGED hassVars

\* the caller makes the next call, and may keep the one that just returned
NextCall ==
    /\ ret.done
    /\ ncalls < MaxCalls
    /\ \E s \in ParseInputs, keep \in BOOLEAN :
          /\ arg' = s
          /\ earlier' = IF keep THEN [made |-> TRUE, n |-> ncalls, arg |-> arg, ret |-> ret]
                        ELSE earlier
    /\ ret' = Pending
    /\ UNCHANGED <<result, ncalls>>
    /\ UNCHANGED hassVars

NextParse == ParseCall \/ NextCall

SpecParse == InitParse /\ [][NextParse]_vars

(***************************************************************************)
(* Properties of parse, checked under SpecParse.                           *)
(***************************************************************************)
RECURSIVE BitOr(_, _)
BitOr(a, b) ==
    IF a = 0 THEN b
    ELSE IF b = 0 THEN a
    ELSE (IF a % 2 = 1 \/ b % 2 = 1 THEN 1 ELSE 0) + 2 * BitOr(a \div 2, b \div 2)

HasInkbird(si) ==
    /\ si.manufacturer_data.kind = "dict"
    /\ INKBIRD_COMPANY_ID \in DOMAIN si.manufacturer_data.map

InkbirdValue(si) == si.manufacturer_data.map[INKBIRD_COMPANY_ID]

IsBytesLike(v) == v.kind \in {"bytes", "bytearray", "memoryview"}

\* a payload of 9 or more bytes is stored under the Inkbird id
LongInkbird(si) ==
    /\ HasInkbird(si)
    /\ IsBytesLike(InkbirdValue(si))
    /\ Len(InkbirdValue(si).data) > LastOffset

IsReading(d) == DOMAIN d = ReadingKeys

\* C1: a payload of 9 or more bytes under company id 9545 decodes to
\* temperature = ((p[5] << 8) | p[4]) / 10, humidity = ((p[7] << 8) | p[6]) / 10
\* and battery = p[8], unsigned and unclamped; the two sample payloads decode
\* to 16.1 / 99.9 / 70 and 15.9 / 99.9 / 86.
C1_FixedOffsetDecoding ==
    (ret.done /\ LongInkbird(arg)) =>
        LET p == InkbirdValue(arg).data
            t == BitOr(Shl8(At(p, 5)), At(p, 4))
            h == BitOr(Shl8(At(p, 7)), At(p, 6))
        IN  /\ ~ret.exc
            /\ IsReading(ret.val)
            /\ t \in 0..65535 /\ ret.val["temperature"] = 10 * t
            /\ h \in 0..65535 /\ ret.val["humidity"] = 10 * h
            /\ ret.val["battery"] = At(p, 8) /\ ret.val["battery"] \in 0..255
            /\ p = SamplePayload4 => ret.val = Reading(1610, 9990, 70)
            /\ p = SamplePayload5 => ret.val = Reading(1590, 9990, 86)

\* C1 witness: the first sample was decoded to 16.1 / 99.9 / 70 after an
\* all-0xFF payload was decoded to 6553.5 / 6553.5 / 255
C1_Witness ==
    /\ ret.done /\ LongInkbird(arg)
    /\ InkbirdValue(arg).data = SamplePayload4
    /\ ret.val = Reading(1610, 9990, 70)
    /\ earlier.made /\ LongInkbird(earlier.arg)
    /\ earlier.ret.val = Reading(655350, 655350, 255)

AllShort(si) ==
    /\ si.manufacturer_data.kind = "dict"
    /\ DOMAIN si.manufacturer_data.map # {}
    /\ \A k \in DOMAIN si.manufacturer_data.map :
          /\ IsBytesLike(si.manufacturer_data.map[k])
          /\ Len(si.manufacturer_data.map[k].data) <= LastOffset

C4_AllOrNothing ==
    ret.done => (ret.val = NoReading \/ IsReading(ret.val))

\* C4 witness: a full reading with an implausible battery, returned after a
\* call whose manufacturer_data getter faulted and which returned {}
C4_Witness ==
    /\ ret.done /\ IsReading(ret.val) /\ ret.val["battery"] > 100
    /\ earlier.made /\ earlier.arg.manufacturer_data.kind = "raises"
    /\ earlier.ret.val = NoReading

\* C5: no fault escapes parse: every call returns a dict, a full reading
\* or NoReading, and none ends by raising.
C5_NoFaultEscapes ==
    ret.done => ~ret.exc

\* C5 witness: a value under 9545 that bytes() refuses, after a call whose
\* manufacturer_data getter faulted; both returned normally
C5_Witness ==
    /\ ret.done /\ ~ret.exc /\ HasInkbird(arg) /\ InkbirdValue(arg) = StrV
    /\ earlier.made /\ earlier.arg.manufacturer_data.kind = "raises"
    /\ ~earlier.ret.exc

SameFields(a, b) ==
    \A i \in 4..LastOffset :
        At(InkbirdValue(a).data, i) = At(InkbirdValue(b).data, i)

\* C7: two advertisements whose 9545 payloads are 9 or more bytes long and
\* agree on bytes 4..8 get the same result.
C7_OnlyBytes4To8 ==
    (ret.done /\ earlier.made /\ LongInkbird(arg) /\ LongInkbird(earlier.arg)
        /\ SameFields(arg, earlier.arg))
    => (ret.val = earlier.ret.val /\ ret.exc = earlier.ret.exc)

\* C7 witness: same bytes 4..8, different bytes 0..3, different length,
\* different foreign entries, different service data
C7_Witness ==
    /\ ret.done /\ earlier.made /\ LongInkbird(arg) /\ LongInkbird(earlier.arg)
    /\ SameFields(arg, earlier.arg)
    /\ SubSeq(InkbirdValue(arg).data, 1, 4) # SubSeq(InkbirdValue(earlier.arg).data, 1, 4)
    /\ Len(InkbirdValue(arg).data) # Len(InkbirdValue(earlier.arg).data)
    /\ DOMAIN arg.manufacturer_data.map # DOMAIN earlier.arg.manufacturer_data.map
    /\ arg.service_data # earlier.arg.service_data
    /\ IsReading(ret.val)

\* C8: two calls given the same manufacturer data return the same result,
\* however many calls were made before and whatever they were given; the
\* dict parse builds holds nothing from before the call.
C8_Deterministic ==
    /\ (ret.done /\ earlier.made
            /\ arg.manufacturer_data = earlier.arg.manufacturer_data)
        => ret = earlier.ret
    /\ ret.done => result = ret.val

\* C8 witness: the first and the third call were given the same short
\* payload, and both returned NoReading
C8_Witness ==
    /\ ret.done /\ earlier.made /\ earlier.n = 1 /\ ncalls = 3
    /\ arg.manufacturer_data = earlier.arg.manufacturer_data
    /\ HasInkbird(arg) /\ ret.val = NoReading

TestInputLE(si) ==
    si.manufacturer_data = DictAttr({<<1, BytesV(TestPayloadLE)>>})
TestInputBE(si) ==
    /\ si.manufacturer_data = DictAttr({})
    /\ si.service_data = TestServiceData

Holds(d, k, v) == k \in DOMAIN d /\ d[k] = v

C10_NoReadingNoUpdate ==
    [][(ncallbacks' = ncallbacks + 1 /\ lastCb'.data = NoReading)
        => (state' = state /\ nsignals' = nsignals /\ entity' = entity)]_vars

\* C10 witness: an advertisement was skipped while the entry held a stored
\* reading, dispatched before, that an added entity shows
C10_Witness ==
    /\ lastCb.outcome = "skipped"
    /\ IsReading([k \in ReadingKeys \cap DOMAIN state[lastCb.entry] |->
                    state[lastCb.entry][k]])
    /\ "last_seen" \in DOMAIN state[lastCb.entry]
    /\ nsignals[lastCb.entry] >= 1
    /\ \E t \in SensorTypes :
          /\ entity[lastCb.entry][t].added
          /\ entity[lastCb.entry][t].value = state[lastCb.entry][t]

(***************************************************************************)
(* Properties of advertisement events, checked under Spec.                 *)
(***************************************************************************)
\* callbacks of entry e run so far for the current event
CallsFor(e) ==
    Cardinality({r \in event.regs : r[1] = e})
    - Cardinality({r \in pending : r[1] = e})

\* update signals dispatched for entry e during the current event
SignalsFor(e) == nsignals[e] - event.signals[e]

\* the temperature, humidity and battery a stored state holds
StoredReading(st) == [k \in ReadingKeys \cap DOMAIN st |-> st[k]]

\* C11: one advertisement event causes, for a config entry, exactly one
\* callback (one parse call), one state update and one update dispatch,
\* also when the advertisement matches several of the registered matchers.
C11_OncePerEvent ==
    \A e \in Entries :
        /\ CallsFor(e) <= 1
        /\ SignalsFor(e) <= 1
        /\ (pending = {} /\ e \in {r[1] : r \in event.regs}) => CallsFor(e) = 1

\* C11, what the code does: the callback runs once for every registration
\* whose matcher accepts the advertisement, up to four times for an entry
C11_OncePerRegistration ==
    \A e \in Entries :
        /\ CallsFor(e) <= Cardinality(Matchers)
        /\ SignalsFor(e) <= CallsFor(e)
        /\ pending = {} => CallsFor(e) = Cardinality({r \in event.regs : r[1] = e})

\* C11 witness: one advertisement from the configured address, with the
\* Inkbird company id and the service UUID, ran the callback of entry1 four
\* times and dispatched four update signals
C11_Witness ==
    /\ pending = {}
    /\ nevents = 1
    /\ event.si.address = ConfiguredMac("entry1")
    /\ CallsFor("entry1") = 4
    /\ SignalsFor("entry1") = 4

\* the advertisement of the current event has an address and parse decodes it
Decodable(si) ==
    /\ si.address # NoAddressAttr
    /\ ~Parse(si).exc
    /\ IsReading(Parse(si).val)

\* the entries whose match-all registration received the current event
MatchAllEntries == {e \in Entries : <<e, "global">> \in event.regs}

\* C12: the callback does not filter on the sender's address: when every
\* registration has been called with an advertisement that has a decodable
\* payload under company id 9545, the stored temperature, humidity and
\* battery of every entry whose match-all matcher is registered are the
\* advertisement's, whatever its address and the entry's configured MAC.
C12_AnyAddressOverwrites ==
    (nevents > 0 /\ pending = {} /\ Decodable(event.si))
    => \A e \in MatchAllEntries :
          StoredReading(state[e]) = Parse(event.si).val

\* C12 witness: an advertisement from an address that no entry is configured
\* with was stored for both entries, each through two registrations
C12_Witness ==
    /\ nevents > 0 /\ pending = {}
    /\ Decodable(event.si)
    /\ \A e \in Entries : event.si.address # ConfiguredMac(e)
    /\ MatchAllEntries = Entries
    /\ \A e \in Entries :
          /\ StoredReading(state[e]) = Parse(event.si).val
          /\ CallsFor(e) = 2
          /\ SignalsFor(e) = 2

\* the value an entity of type t of entry e is to show
StoredValue(e, t) == IF t \in DOMAIN state[e] THEN state[e][t] ELSE NoneState

\* the stored state holds no reading or a whole one
WholeOrUnset(st) ==
    \/ ReadingKeys \cap DOMAIN st = {}
    \/ IsReading(StoredReading(st))

\* a step is a callback of entry e that decoded its advertisement
UpdatedStep(e) ==
    /\ ncallbacks' = ncallbacks + 1
    /\ lastCb'.outcome = "updated"
    /\ lastCb'.entry = e

\* C13: in every state reached by callbacks and entity additions, each added
\* entity shows the stored state's value for its sensor type; the stored
\* temperature, humidity and battery are all unset or those of the most
\* recent callback of the entry that decoded its advertisement, and change
\* in no other step, so added entities never miss an update.
C13_EntitiesFollowState ==
    /\ [](\A e \in Entries :
            /\ WholeOrUnset(state[e])
            /\ \A t \in SensorTypes :
                  entity[e][t].added => entity[e][t].value = StoredValue(e, t))
    /\ [][\A e \in Entries :
            IF UpdatedStep(e)
            THEN StoredReading(state'[e]) = lastCb'.data
            ELSE StoredReading(state'[e]) = StoredReading(state[e])]_vars

\* C13 witness: during the first advertisement event an entity added before
\* it shows the reading it received through the dispatch, while another
\* entity of the entry is still to be added
C13_Witness ==
    /\ nevents = 1 /\ pending # {}
    /\ CallsFor("entry1") >= 1
    /\ Decodable(event.si)
    /\ entity["entry1"]["temperature"].added
    /\ entity["entry1"]["temperature"].value = Parse(event.si).val["temperature"]
    /\ ~entity["entry1"]["humidity"].added
    /\ StoredValue("entry1", "humidity") = Parse(event.si).val["humidity"]

====
